---------------------------- MODULE Spec2Model ----------------------------
(***************************************************************************)
(* Model of the canary MetricsPublisher (src/canary/MetricsPublisher.cpp): *)
(* the aggregation buffer and its lookup index, the publish task, the      *)
(* sign / acquire / send callbacks of a batch, the backup log, and the     *)
(* blocking callers FlushMetrics, WaitForLastPublish and UploadBackup.     *)
(*                                                                         *)
(* A Metric is a record [Name, Unit, Timestamp, Value].  Name and Unit are *)
(* the enum ordinals (indices into MetricNameStr / MetricUnitStr),         *)
(* Timestamp is in milliseconds.  Value is a double in the source; here it *)
(* is a count of 10^-7 units, and the sums that occur stay exact.          *)
(*                                                                         *)
(* Time is abstracted: a scheduled publish task may run at any later step. *)
(*                                                                         *)
(* Three specifications share the variables: Spec (producers, the publish  *)
(* task and the blocking callers), SpecReplay (RehydrateBackup of a stored *)
(* backup document against the publish task) and SpecPool (the             *)
(* HttpClientConnectionManager of src/source/http/HttpConnectionManager.cpp *)
(* over its underlying connection pool).                                   *)
(***************************************************************************)
EXTENDS Integers, Sequences, FiniteSets, Bags, TLC

(* ---------------- bounds of the model ---------------- *)

\* number of AddDataPoint / AddDataPoints calls made by producers
MaxAdds == 2
\* number of calls made by the main thread (FlushMetrics, WaitForLastPublish, UploadBackup)
MaxCalls == 2
\* length of the large vector handed to AddDataPoints (more than one request can carry)
BulkLen == 21
\* number of AcquireConnection calls made on the connection manager
MaxAcquires == 2

(* ---------------- program constants ---------------- *)

\* "max of 20 per request"
MaxPerRequest == 20
\* Timestamp is in milliseconds, MetricKey::TimestampSeconds in seconds
MillisPerSecond == 1000
\* Value counts units of 10^-7, so this many make 10^-6
ValuePerMicro == 10

\* enum ordinals used by the inputs
BytesUp == 0
UnitBytes == 3
\* number of entries of MetricNameStr before "Invalid"
NumValidNames == 14

AWS_OP_SUCCESS == 0
AWS_ERROR_OOM == 1
HttpOk == 200
HttpServerError == 500

ErrorCodes == { AWS_OP_SUCCESS, AWS_ERROR_OOM }

\* a non-zero error code the pool hands to s_onConnectionSetup when it could
\* not connect
ConnectError == 2
SetupErrorCodes == ErrorCodes \cup { ConnectError }
ResponseCodes == { HttpOk, HttpServerError }

\* HttpClientConnectionManagerOptions(): MaxConnections(1)
MaxConnections == 1

TransferNone == 0
MultiPart == 2

\* the context of this run: m_transferType and the CanaryAppOptions
RunContext ==
    [TransferType |-> TransferNone, PlatformName |-> "platform", ToolName |-> "NA",
     InstanceType |-> "unknown", Encrypted |-> FALSE]

\* the context of the earlier run that uploaded the stored backup document
EarlierContext ==
    [TransferType |-> MultiPart, PlatformName |-> "earlierPlatform",
     ToolName |-> "earlierTool", InstanceType |-> "earlierInstance", Encrypted |-> TRUE]

(* ---------------- inputs ---------------- *)

Metric(name, unit, timestamp, value) ==
    [Name |-> name, Unit |-> unit, Timestamp |-> timestamp, Value |-> value]

\* a BytesUp point 500 ms after the first point of BulkVector, in the same second
SinglePoints ==
    { Metric(BytesUp, UnitBytes, 1500, 25) }

\* BulkLen points with pairwise distinct (name, second)
BulkVector ==
    [i \in 1..BulkLen |->
        Metric((i - 1) % NumValidNames, UnitBytes,
               MillisPerSecond * (1 + ((i - 1) \div NumValidNames)), 10)]

Vectors == { BulkVector }

(* ---------------- state ---------------- *)

VARIABLES
    m_publishData,          \* Vector<Metric>: the live aggregation buffer
    m_publishDataLU,        \* map MetricKey -> index into m_publishData (0-based)
    m_publishDataTaskCopy,  \* Vector<Metric>: the drained snapshot being consumed
    m_metricsBackup,        \* Vector<Metric>: the backup log
    metricsSlice,           \* the batch popped by the most recent publish task run
    requests,               \* requests handed to the signer and not yet finished
    publishTaskPending,     \* how many times m_publishTask is queued on the event loop
    callerPc,               \* position of the main thread
    notified,               \* the waiter blocked on m_waitForLastPublishCV was notified
    forkModeEnabled,        \* CanaryAppOptions::forkModeEnabled
    putObject,              \* the PutObject call UploadBackup is blocked on
    s3Object,               \* what the last successful PutObject stored
    uploadResult,           \* the value the last UploadBackup returned
    liveAdds,               \* the points added since the live buffer was last emptied
    drained,                \* every bucket ever moved from the live buffer into the snapshot
    overrides,              \* m_transferTypeOverride .. m_sendEncryptedOverride, m_replayId
    rehydrate,              \* the locals of the RehydrateBackup call in progress
    taskRunning,            \* the publish task has popped its slice and not yet encoded it
    manager,                \* the HttpClientConnectionManager object
    pool,                   \* the underlying aws_http_connection_manager
    acquires,               \* one entry per AcquireConnection call, in call order
    nAdds,                  \* AddDataPoint / AddDataPoints calls so far
    nCalls                  \* main thread calls so far

vars ==
    << m_publishData, m_publishDataLU, m_publishDataTaskCopy, m_metricsBackup,
       metricsSlice, requests, publishTaskPending, callerPc, notified,
       forkModeEnabled, putObject, s3Object, uploadResult, liveAdds, drained,
       overrides, rehydrate, taskRunning, manager, pool, acquires, nAdds, nCalls >>

bufferVars == << m_publishData, m_publishDataLU >>
taskVars == << m_publishDataTaskCopy, m_metricsBackup, metricsSlice, drained >>
uploadVars == << putObject, s3Object, uploadResult >>
replayVars == << overrides, rehydrate, taskRunning >>
poolVars == << manager, pool, acquires >>

NoPut == [pending |-> FALSE]
NoObject == [stored |-> FALSE]

\* Optional<T>: empty, or holding a value
NoValue == [has_value |-> FALSE]
Optional(v) == [has_value |-> TRUE, value |-> v]

OverrideFields ==
    << "TransferType", "PlatformName", "ToolName", "InstanceType", "Encrypted", "ReplayId" >>

NoOverrides ==
    [f \in { OverrideFields[i] : i \in DOMAIN OverrideFields } |-> NoValue]

\* no RehydrateBackup call is in progress
NoRehydrate == [active |-> FALSE]

\* mutant: the promise is set by the constructor whatever the options say
ConstructPromise_AlwaysSet(enableBlockingShutdown) == TRUE

\* the constructor sets m_shutdownPromise at once unless EnableBlockingShutdown
ConstructPromise(enableBlockingShutdown) == ~enableBlockingShutdown

\* the manager after NewClientConnectionManager: "owner" is the shared_ptr the
\* factory returned, "state" the position of the object's life
NewManager(enableBlockingShutdown) ==
    [EnableBlockingShutdown |-> enableBlockingShutdown,
     m_releaseInvoked |-> FALSE,
     m_shutdownPromise |-> ConstructPromise(enableBlockingShutdown),
     owner |-> TRUE,
     state |-> "alive"]

\* the underlying pool after aws_http_connection_manager_new: freeConnections
\* is the number of idle connections, shuttingDown is set when the manager's
\* hold is released, holdReleases counts the calls that release it
NewPool ==
    [leasedCount |-> 0, freeConnections |-> 0, pendingAcquireQueue |-> << >>,
     shuttingDown |-> FALSE, shutdownComplete |-> FALSE, holdReleases |-> 0]

Init ==
    /\ m_publishData = << >>
    /\ m_publishDataLU = << >>
    /\ m_publishDataTaskCopy = << >>
    /\ m_metricsBackup = << >>
    /\ metricsSlice = << >>
    /\ requests = << >>
    /\ publishTaskPending = 0
    /\ callerPc = "idle"
    /\ notified = FALSE
    /\ forkModeEnabled \in BOOLEAN
    /\ putObject = NoPut
    /\ s3Object = NoObject
    /\ uploadResult = "none"
    /\ liveAdds = << >>
    /\ drained = << >>
    /\ overrides = NoOverrides
    /\ rehydrate = NoRehydrate
    /\ taskRunning = FALSE
    /\ manager = NewManager(FALSE)
    /\ pool = NewPool
    /\ acquires = << >>
    /\ nAdds = 0
    /\ nCalls = 0

(* ---------------- MetricAggregator ---------------- *)

MetricKeyOf(metric) ==
    [Name |-> metric.Name, TimestampSeconds |-> metric.Timestamp \div MillisPerSecond]

\* mutant: a matching bucket takes the new value instead of accumulating it
AddDataPointInternal_Overwrite(buf, newMetric) ==
    LET metricKey == MetricKeyOf(newMetric) IN
    IF metricKey \in DOMAIN buf.lu
    THEN LET index == buf.lu[metricKey] IN
         [data |-> [buf.data EXCEPT ![index + 1].Value = newMetric.Value],
          lu |-> buf.lu]
    ELSE [data |-> Append(buf.data, newMetric),
          lu |-> buf.lu @@ (metricKey :> Len(buf.data))]

\* buf is [data |-> m_publishData, lu |-> m_publishDataLU]
AddDataPointInternal(buf, newMetric) ==
    LET metricKey == MetricKeyOf(newMetric) IN
    IF metricKey \in DOMAIN buf.lu
    THEN LET index == buf.lu[metricKey] IN
         [data |-> [buf.data EXCEPT ![index + 1].Value = @ + newMetric.Value],
          lu |-> buf.lu]
    ELSE [data |-> Append(buf.data, newMetric),
          lu |-> buf.lu @@ (metricKey :> Len(buf.data))]

RECURSIVE AddEach(_, _)
AddEach(buf, newMetrics) ==
    IF newMetrics = << >> THEN buf
    ELSE AddEach(AddDataPointInternal(buf, Head(newMetrics)), Tail(newMetrics))

LiveBuffer == [data |-> m_publishData, lu |-> m_publishDataLU]

\* the whole body runs under m_publishDataLock
AddDataPoint(newMetric) ==
    /\ nAdds < MaxAdds
    /\ LET buf == AddDataPointInternal(LiveBuffer, newMetric) IN
        /\ m_publishData' = buf.data
        /\ m_publishDataLU' = buf.lu
    /\ liveAdds' = Append(liveAdds, newMetric)
    /\ nAdds' = nAdds + 1
    /\ UNCHANGED << taskVars, requests, publishTaskPending, callerPc, notified,
                    forkModeEnabled, poolVars, replayVars, uploadVars, nCalls >>

AddDataPoints(newMetrics) ==
    /\ nAdds < MaxAdds
    /\ LET buf == AddEach(LiveBuffer, newMetrics) IN
        /\ m_publishData' = buf.data
        /\ m_publishDataLU' = buf.lu
    /\ liveAdds' = liveAdds \o newMetrics
    /\ nAdds' = nAdds + 1
    /\ UNCHANGED << taskVars, requests, publishTaskPending, callerPc, notified,
                    forkModeEnabled, poolVars, replayVars, uploadVars, nCalls >>

(* ---------------- PublishScheduler ---------------- *)

\* aws_event_loop_schedule_task_future on m_publishTask, as the set of possible
\* numbers of queued runs afterwards.  Scheduling the one aws_task object again
\* while it is still queued is outside the scheduler's contract: the task may
\* then run once or twice.
SchedulePublish(pending) ==
    IF pending = 0 THEN {1} ELSE {pending, pending + 1}

\* mutant: the drain forgets m_publishDataLU.clear()
TakeSnapshot_KeepIndex(taskCopy, buf) ==
    IF Len(taskCopy) = 0
    THEN IF buf.data = << >>
         THEN [copy |-> taskCopy, data |-> buf.data, lu |-> buf.lu,
               return |-> TRUE, notify |-> TRUE]
         ELSE [copy |-> buf.data, data |-> << >>, lu |-> buf.lu,
               return |-> FALSE, notify |-> FALSE]
    ELSE [copy |-> taskCopy, data |-> buf.data, lu |-> buf.lu,
          return |-> FALSE, notify |-> FALSE]

\* mutant: the live buffer is drained on every tick, onto what is left of the snapshot
TakeSnapshot_Redrain(taskCopy, buf) ==
    IF buf.data = << >>
    THEN [copy |-> taskCopy, data |-> buf.data, lu |-> buf.lu,
          return |-> Len(taskCopy) = 0, notify |-> Len(taskCopy) = 0]
    ELSE [copy |-> taskCopy \o buf.data, data |-> << >>, lu |-> << >>,
          return |-> FALSE, notify |-> FALSE]

\* mutant: the tick that drains the buffer notifies the waiters too
TakeSnapshot_NotifyOnDrain(taskCopy, buf) ==
    IF Len(taskCopy) = 0
    THEN IF buf.data = << >>
         THEN [copy |-> taskCopy, data |-> buf.data, lu |-> buf.lu,
               return |-> TRUE, notify |-> TRUE]
         ELSE [copy |-> buf.data, data |-> << >>, lu |-> << >>,
               return |-> FALSE, notify |-> TRUE]
    ELSE [copy |-> taskCopy, data |-> buf.data, lu |-> buf.lu,
          return |-> FALSE, notify |-> FALSE]

\* mutant: the drain leaves the newest bucket in the live buffer
TakeSnapshot_LeaveNewest(taskCopy, buf) ==
    IF Len(taskCopy) = 0
    THEN IF buf.data = << >>
         THEN [copy |-> taskCopy, data |-> buf.data, lu |-> buf.lu,
               return |-> TRUE, notify |-> TRUE]
         ELSE LET newest == buf.data[Len(buf.data)] IN
              [copy |-> SubSeq(buf.data, 1, Len(buf.data) - 1),
               data |-> << newest >>, lu |-> (MetricKeyOf(newest) :> 0),
               return |-> FALSE, notify |-> FALSE]
    ELSE [copy |-> taskCopy, data |-> buf.data, lu |-> buf.lu,
          return |-> FALSE, notify |-> FALSE]

\* the head of s_OnPublishTask: with no carried-over snapshot, under
\* m_publishDataLock, either there is nothing to send (notify and return) or
\* the live buffer is moved into the snapshot and buffer and index are emptied
TakeSnapshot(taskCopy, buf) ==
    IF Len(taskCopy) = 0
    THEN IF buf.data = << >>
         THEN [copy |-> taskCopy, data |-> buf.data, lu |-> buf.lu,
               return |-> TRUE, notify |-> TRUE]
         ELSE [copy |-> buf.data, data |-> << >>, lu |-> << >>,
               return |-> FALSE, notify |-> FALSE]
    ELSE [copy |-> taskCopy, data |-> buf.data, lu |-> buf.lu,
          return |-> FALSE, notify |-> FALSE]

\* mutant: the loop has no cap on the slice
RECURSIVE PopSlice_NoCap(_, _)
PopSlice_NoCap(taskCopy, slice) ==
    IF taskCopy # << >>
    THEN PopSlice_NoCap(SubSeq(taskCopy, 1, Len(taskCopy) - 1),
                        Append(slice, taskCopy[Len(taskCopy)]))
    ELSE [copy |-> taskCopy, slice |-> slice]

\* mutant: the loop pushes back() but never pops it
RECURSIVE PopSlice_NoPop(_, _)
PopSlice_NoPop(taskCopy, slice) ==
    IF taskCopy # << >> /\ Len(slice) < MaxPerRequest
    THEN PopSlice_NoPop(taskCopy, Append(slice, taskCopy[Len(taskCopy)]))
    ELSE [copy |-> taskCopy, slice |-> slice]

\* mutant: what the loop leaves in the snapshot is discarded
RECURSIVE PopSlice_ClearRest(_, _)
PopSlice_ClearRest(taskCopy, slice) ==
    IF taskCopy # << >> /\ Len(slice) < MaxPerRequest
    THEN PopSlice_ClearRest(SubSeq(taskCopy, 1, Len(taskCopy) - 1),
                            Append(slice, taskCopy[Len(taskCopy)]))
    ELSE [copy |-> << >>, slice |-> slice]

\* the loop that moves points from the back of the snapshot into metricsSlice
RECURSIVE PopSlice(_, _)
PopSlice(taskCopy, slice) ==
    IF taskCopy # << >> /\ Len(slice) < MaxPerRequest
    THEN PopSlice(SubSeq(taskCopy, 1, Len(taskCopy) - 1),
                  Append(slice, taskCopy[Len(taskCopy)]))
    ELSE [copy |-> taskCopy, slice |-> slice]

\* mutant: the log is replaced by the batch instead of extended
WriteToBackup_Overwrite(backup, metrics) == metrics

\* mutant: a point whose key is already in the log is not logged again
WriteToBackup_SkipKnownKeys(backup, metrics) ==
    LET Fresh(metric) ==
            \A i \in DOMAIN backup : MetricKeyOf(backup[i]) # MetricKeyOf(metric)
    IN backup \o SelectSeq(metrics, Fresh)

WriteToBackup(backup, metrics) == backup \o metrics

TransferTypeStr == << "None", "SinglePart", "MultiPart" >>

MetricTransferTypeToString(transferType) ==
    IF transferType >= Len(TransferTypeStr) THEN "None" ELSE TransferTypeStr[transferType + 1]

\* the getters: the override when it holds a value, else the value of this run
GetTransferType ==
    IF overrides.TransferType.has_value
    THEN overrides.TransferType.value ELSE RunContext.TransferType
GetPlatformName ==
    IF overrides.PlatformName.has_value
    THEN overrides.PlatformName.value ELSE RunContext.PlatformName
GetToolName ==
    IF overrides.ToolName.has_value
    THEN overrides.ToolName.value ELSE RunContext.ToolName
GetInstanceType ==
    IF overrides.InstanceType.has_value
    THEN overrides.InstanceType.value ELSE RunContext.InstanceType
IsSendingEncrypted ==
    IF overrides.Encrypted.has_value
    THEN overrides.Encrypted.value ELSE RunContext.Encrypted

\* the dimensions PreparePayload writes for the metrics of a request; the
\* ReplayId dimension is written only when m_replayId holds a value
PreparePayload ==
    [Platform |-> GetPlatformName,
     ToolName |-> GetToolName,
     InstanceType |-> GetInstanceType,
     TransferType |-> MetricTransferTypeToString(GetTransferType),
     Encrypted |-> IsSendingEncrypted,
     ReplayId |-> overrides.ReplayId]

\* the request built from the slice and handed to SignRequest
NewRequest(metrics) ==
    [metrics |-> metrics, dimensions |-> PreparePayload, stage |-> "signing"]

\* m_waitForLastPublishCV.notify_all(): wakes the thread blocked in the wait, if any
NotifyAll == IF callerPc = "waiting" THEN TRUE ELSE notified

\* mutant: the status of the task is not looked at
s_OnPublishTask_IgnoreStatus(status) ==
    /\ publishTaskPending > 0
    /\ publishTaskPending' = publishTaskPending - 1
    /\ IF FALSE
       THEN UNCHANGED << bufferVars, taskVars, requests, notified, liveAdds >>
       ELSE LET snap == TakeSnapshot(m_publishDataTaskCopy, LiveBuffer) IN
            /\ m_publishData' = snap.data
            /\ m_publishDataLU' = snap.lu
            /\ notified' = IF snap.notify THEN NotifyAll ELSE notified
            /\ liveAdds' = IF snap.data = << >> THEN << >> ELSE liveAdds
            /\ drained' = IF snap.data # m_publishData
                          THEN drained \o m_publishData
                          ELSE drained
            /\ IF snap.return
               THEN UNCHANGED << m_publishDataTaskCopy, m_metricsBackup,
                                 metricsSlice, requests >>
               ELSE LET popped == PopSlice(snap.copy, << >>) IN
                    /\ m_publishDataTaskCopy' = popped.copy
                    /\ metricsSlice' = popped.slice
                    /\ m_metricsBackup' = WriteToBackup(m_metricsBackup, popped.slice)
                    /\ requests' = Append(requests, NewRequest(popped.slice))
    /\ UNCHANGED << callerPc, forkModeEnabled, poolVars, replayVars, uploadVars, nAdds, nCalls >>

\* the publish task, run by the event loop with status RUN_READY or CANCELED
s_OnPublishTask(status) ==
    /\ publishTaskPending > 0
    /\ publishTaskPending' = publishTaskPending - 1
    /\ IF status # "RUN_READY"
       THEN UNCHANGED << bufferVars, taskVars, requests, notified, liveAdds >>
       ELSE LET snap == TakeSnapshot(m_publishDataTaskCopy, LiveBuffer) IN
            /\ m_publishData' = snap.data
            /\ m_publishDataLU' = snap.lu
            /\ notified' = IF snap.notify THEN NotifyAll ELSE notified
            /\ liveAdds' = IF snap.data = << >> THEN << >> ELSE liveAdds
            /\ drained' = IF snap.data # m_publishData
                          THEN drained \o m_publishData
                          ELSE drained
            /\ IF snap.return
               THEN UNCHANGED << m_publishDataTaskCopy, m_metricsBackup,
                                 metricsSlice, requests >>
               ELSE LET popped == PopSlice(snap.copy, << >>) IN
                    /\ m_publishDataTaskCopy' = popped.copy
                    /\ metricsSlice' = popped.slice
                    /\ m_metricsBackup' = WriteToBackup(m_metricsBackup, popped.slice)
                    /\ requests' = Append(requests, NewRequest(popped.slice))
    /\ UNCHANGED << callerPc, forkModeEnabled, poolVars, replayVars, uploadVars, nAdds, nCalls >>

RemoveAt(seq, i) == SubSeq(seq, 1, i - 1) \o SubSeq(seq, i + 1, Len(seq))

\* mutant: a batch whose signing fails is put back onto the snapshot
OnSigningComplete_Requeue(i, signingError, allocOk) ==
    /\ i \in DOMAIN requests
    /\ requests[i].stage = "signing"
    /\ IF signingError = AWS_OP_SUCCESS
       THEN /\ requests' = IF allocOk
                           THEN [requests EXCEPT ![i].stage = "acquiring"]
                           ELSE RemoveAt(requests, i)
            /\ UNCHANGED m_publishDataTaskCopy
       ELSE /\ requests' = RemoveAt(requests, i)
            /\ m_publishDataTaskCopy' = m_publishDataTaskCopy \o requests[i].metrics
    /\ UNCHANGED << bufferVars, m_metricsBackup, metricsSlice, drained,
                    publishTaskPending, callerPc, notified, forkModeEnabled, poolVars, replayVars,
                    uploadVars, liveAdds, nAdds, nCalls >>

\* the SignRequest completion callback; allocOk is whether AcquireConnection could
\* allocate its callback arguments (when it cannot it returns false, which the
\* caller ignores, and no callback is ever delivered)
OnSigningComplete(i, signingError, allocOk) ==
    /\ i \in DOMAIN requests
    /\ requests[i].stage = "signing"
    /\ IF signingError = AWS_OP_SUCCESS
       THEN /\ requests' = IF allocOk
                           THEN [requests EXCEPT ![i].stage = "acquiring"]
                           ELSE RemoveAt(requests, i)
       ELSE /\ requests' = RemoveAt(requests, i)
    /\ UNCHANGED << bufferVars, taskVars, publishTaskPending, callerPc, notified,
                    forkModeEnabled, poolVars, replayVars, uploadVars, liveAdds, nAdds, nCalls >>

\* mutant: the callback creates and activates the stream whatever connError is
OnConnectionAvailable_PostOnError(i, connError, streamOk) ==
    /\ i \in DOMAIN requests
    /\ requests[i].stage = "acquiring"
    /\ IF streamOk
       THEN /\ requests' = [requests EXCEPT ![i].stage = "streaming"]
       ELSE /\ requests' = RemoveAt(requests, i)
    /\ publishTaskPending' \in SchedulePublish(publishTaskPending)
    /\ UNCHANGED << bufferVars, taskVars, callerPc, notified, forkModeEnabled, poolVars, replayVars,
                    uploadVars, liveAdds, nAdds, nCalls >>

\* the AcquireConnection callback; streamOk is whether NewClientStream returned a stream
OnConnectionAvailable(i, connError, streamOk) ==
    /\ i \in DOMAIN requests
    /\ requests[i].stage = "acquiring"
    /\ IF connError = AWS_OP_SUCCESS
       THEN IF streamOk
            THEN /\ requests' = [requests EXCEPT ![i].stage = "streaming"]
            ELSE /\ requests' = RemoveAt(requests, i)
       ELSE /\ requests' = RemoveAt(requests, i)
    /\ publishTaskPending' \in SchedulePublish(publishTaskPending)
    /\ UNCHANGED << bufferVars, taskVars, callerPc, notified, forkModeEnabled, poolVars, replayVars,
                    uploadVars, liveAdds, nAdds, nCalls >>

\* requestOptions.onStreamComplete
OnStreamComplete(i, responseStatusCode) ==
    /\ i \in DOMAIN requests
    /\ requests[i].stage = "streaming"
    /\ requests' = RemoveAt(requests, i)
    /\ UNCHANGED << bufferVars, taskVars, publishTaskPending, callerPc, notified,
                    forkModeEnabled, poolVars, replayVars, uploadVars, liveAdds, nAdds, nCalls >>

(* ---------------- blocking callers (main thread) ---------------- *)

\* FlushMetrics, first statement: SchedulePublish()
FlushMetrics ==
    /\ callerPc = "idle"
    /\ nCalls < MaxCalls
    /\ nCalls' = nCalls + 1
    /\ publishTaskPending' \in SchedulePublish(publishTaskPending)
    /\ callerPc' = "flush"
    /\ UNCHANGED << bufferVars, taskVars, requests, notified,
                    forkModeEnabled, poolVars, replayVars, uploadVars, liveAdds, nAdds >>

\* where the main thread continues when WaitForLastPublish returns: in
\* RehydrateBackup when that is the caller, else in the application
AfterWait == IF rehydrate.active THEN "clearing" ELSE "idle"

\* the predicate of m_waitForLastPublishCV.wait, evaluated under m_publishDataLock
WaitPredicate(data) == Len(data) = 0

\* WaitForLastPublish is entered, by FlushMetrics or directly: the predicate is
\* checked first; the thread blocks only if it is false
WaitForLastPublish ==
    /\ \/ callerPc = "flush" /\ UNCHANGED nCalls
       \/ callerPc = "idle" /\ nCalls < MaxCalls /\ nCalls' = nCalls + 1
    /\ callerPc' = IF WaitPredicate(m_publishData) THEN AfterWait ELSE "waiting"
    /\ notified' = FALSE
    /\ UNCHANGED << bufferVars, taskVars, requests, publishTaskPending,
                    forkModeEnabled, poolVars, replayVars, uploadVars, liveAdds, nAdds >>

\* the blocked thread wakes, after notify_all (spurious = FALSE) or spuriously,
\* as std::condition_variable permits, re-checks the predicate and returns or
\* blocks again
WaitWake(spurious) ==
    /\ callerPc = "waiting"
    /\ spurious \/ notified
    /\ callerPc' = IF WaitPredicate(m_publishData) THEN AfterWait ELSE "waiting"
    /\ notified' = FALSE
    /\ UNCHANGED << bufferVars, taskVars, requests, publishTaskPending,
                    forkModeEnabled, poolVars, replayVars, uploadVars, liveAdds, nAdds, nCalls >>

(* ---------------- BackupStore ---------------- *)

MetricUnitStr ==
    << "Seconds", "Microseconds", "Milliseconds", "Bytes", "Kilobytes", "Megabytes",
       "Gigabytes", "Terabytes", "Bits", "Kilobits", "Gigabits", "Terabits", "Percent",
       "Count", "Bytes%2FSecond", "Kilobytes%2FSecond", "Megabytes%2FSecond",
       "Gigabytes%2FSecond", "Terabytes%2FSecond", "Bits%2FSecond", "Kilobits%2FSecond",
       "Megabits%2FSecond", "Gigabits%2FSecond", "Terabits%2FSecond", "Counts%2FSecond",
       "None" >>

MetricNameStr ==
    << "BytesUp", "BytesDown", "NumConnections", "BytesAllocated", "S3AddressCount",
       "SuccessfulTransfer", "FailedTransfer", "AvgEventLoopGroupTickElapsed",
       "AvgEventLoopTaskRunElapsed", "MinEventLoopGroupTickElapsed",
       "MinEventLoopTaskRunElapsed", "MaxEventLoopGroupTickElapsed",
       "MaxEventLoopTaskRunElapsed", "NumIOSubs", "Invalid" >>

UnitToStr(unit) ==
    IF unit >= Len(MetricUnitStr) THEN "None" ELSE MetricUnitStr[unit + 1]

MetricNameToStr(name) ==
    IF name >= Len(MetricNameStr) THEN "None" ELSE MetricNameStr[name + 1]

\* operator<< of an unsigned integer: its decimal digits
RECURSIVE DecimalString(_)
DecimalString(n) ==
    IF n < 10 THEN << n >> ELSE Append(DecimalString(n \div 10), n % 10)

\* operator<< with std::fixed and the default precision of 6: the value rounded
\* to a whole number of 10^-6 (Value counts 10^-7)
FixedValue(value) == (value + (ValuePerMicro \div 2)) \div ValuePerMicro

\* the "Metrics" array of the backup document, one object per log entry
BackupContents(backup) ==
    [i \in 1..Len(backup) |->
        [Name |-> MetricNameToStr(backup[i].Name),
         Timestamp |-> DecimalString(backup[i].Timestamp),
         Value |-> FixedValue(backup[i].Value),
         Unit |-> UnitToStr(backup[i].Unit)]]

\* the backup document: the context fields, then the "Metrics" array; the
\* encrypted flag is written with operator<< as 0 or 1
BackupDocument(transferType, platformName, toolName, instanceType, encrypted, backup) ==
    [TransferType |-> MetricTransferTypeToString(transferType),
     PlatformName |-> platformName,
     ToolName |-> toolName,
     InstanceType |-> instanceType,
     Encrypted |-> IF encrypted THEN 1 ELSE 0,
     Metrics |-> BackupContents(backup)]

\* UploadBackup up to the wait on the PutObject completion
UploadBackup ==
    /\ callerPc = "idle"
    /\ nCalls < MaxCalls
    /\ nCalls' = nCalls + 1
    /\ IF forkModeEnabled
       THEN /\ uploadResult' = ""
            /\ UNCHANGED << callerPc, putObject >>
       ELSE /\ putObject' =
                  [pending |-> TRUE, signalVal |-> FALSE,
                   contents |-> BackupDocument(GetTransferType, GetPlatformName,
                                               GetToolName, GetInstanceType,
                                               IsSendingEncrypted, m_metricsBackup)]
            /\ callerPc' = "uploading"
            /\ UNCHANGED uploadResult
    /\ UNCHANGED << bufferVars, taskVars, requests, publishTaskPending,
                    notified, forkModeEnabled, poolVars, replayVars, s3Object, liveAdds, nAdds >>

\* the PutObject completion callback: sets signalVal whatever the error code
OnPutObjectComplete(errorCode) ==
    /\ putObject.pending
    /\ ~putObject.signalVal
    /\ putObject' = [putObject EXCEPT !.signalVal = TRUE]
    /\ s3Object' = IF errorCode = AWS_OP_SUCCESS
                   THEN [stored |-> TRUE, contents |-> putObject.contents]
                   ELSE s3Object
    /\ UNCHANGED << bufferVars, taskVars, requests, publishTaskPending,
                    callerPc, notified, forkModeEnabled, poolVars, replayVars, uploadResult, liveAdds,
                    nAdds, nCalls >>

\* a return that does not wait for the completion callback
UploadBackupReturn_NoWait ==
    /\ callerPc = "uploading"
    /\ uploadResult' = "s3BackupPath"
    /\ putObject' = NoPut
    /\ callerPc' = "idle"
    /\ UNCHANGED << bufferVars, taskVars, requests, publishTaskPending,
                    notified, forkModeEnabled, poolVars, replayVars, s3Object, liveAdds, nAdds, nCalls >>

\* UploadBackup after signal.wait: returns the derived path
UploadBackupReturn ==
    /\ callerPc = "uploading"
    /\ putObject.signalVal
    /\ uploadResult' = "s3BackupPath"
    /\ putObject' = NoPut
    /\ callerPc' = "idle"
    /\ UNCHANGED << bufferVars, taskVars, requests, publishTaskPending,
                    notified, forkModeEnabled, poolVars, replayVars, s3Object, liveAdds, nAdds, nCalls >>

Next ==
    \/ \E p \in SinglePoints : AddDataPoint(p)
    \/ \E v \in Vectors : AddDataPoints(v)
    \/ s_OnPublishTask("RUN_READY")
    \/ \E i \in DOMAIN requests, e \in ErrorCodes, ok \in BOOLEAN : OnSigningComplete(i, e, ok)
    \/ \E i \in DOMAIN requests, e \in ErrorCodes, ok \in BOOLEAN : OnConnectionAvailable(i, e, ok)
    \/ \E i \in DOMAIN requests, c \in ResponseCodes : OnStreamComplete(i, c)
    \/ FlushMetrics
    \/ WaitForLastPublish
    \/ \E spurious \in BOOLEAN : WaitWake(spurious)
    \/ UploadBackup
    \/ \E e \in ErrorCodes : OnPutObjectComplete(e)
    \/ UploadBackupReturn

Spec == Init /\ [][Next]_vars

\* the event loop takes the publish task off its queue and runs it; in Next
\* the steps that lower publishTaskPending are those of s_OnPublishTask, which
\* is enabled whenever the task is queued
TaskRuns ==
    /\ publishTaskPending > 0
    /\ publishTaskPending' = publishTaskPending - 1

\* the event loop runs a task that is due, the signer and the pool deliver
\* their callbacks, a thread that is in FlushMetrics goes on to
\* WaitForLastPublish, and a waiter that was notified wakes; a spurious wake-up
\* may never come, and the producers and the application owe no further call
Fairness ==
    /\ WF_publishTaskPending(TaskRuns)
    /\ WF_vars(\E i \in DOMAIN requests, e \in ErrorCodes, ok \in BOOLEAN :
                  OnSigningComplete(i, e, ok))
    /\ WF_vars(\E i \in DOMAIN requests, e \in ErrorCodes, ok \in BOOLEAN :
                  OnConnectionAvailable(i, e, ok))
    /\ WF_vars(\E i \in DOMAIN requests, c \in ResponseCodes : OnStreamComplete(i, c))
    /\ WF_vars(callerPc = "flush" /\ WaitForLastPublish)
    /\ WF_vars(WaitWake(FALSE))

SpecFair == Init /\ [][Next]_vars /\ Fairness

(* ---------------- the publisher up to its destruction ---------------- *)

\* ~MetricsPublisher, run by the thread that owns the publisher:
\* aws_event_loop_cancel_task(m_schedulingLoop, &m_publishTask)
MetricsPublisherDestructor ==
    /\ callerPc = "idle"
    /\ callerPc' = "destroyed"
    /\ UNCHANGED << bufferVars, taskVars, requests, publishTaskPending, notified,
                    forkModeEnabled, poolVars, replayVars, uploadVars, liveAdds, nAdds, nCalls >>

\* the publisher has not been destroyed
Alive == callerPc # "destroyed"

\* the operations on a live publisher, and for a destroyed one the run of the
\* cancelled task, which the event loop gives the status CANCELED
NextLifetime ==
    \/ Alive /\ \E p \in SinglePoints : AddDataPoint(p)
    \/ Alive /\ \E v \in Vectors : AddDataPoints(v)
    \/ Alive /\ s_OnPublishTask("RUN_READY")
    \/ Alive /\ \E i \in DOMAIN requests, e \in ErrorCodes, ok \in BOOLEAN :
                    OnSigningComplete(i, e, ok)
    \/ Alive /\ \E i \in DOMAIN requests, e \in ErrorCodes, ok \in BOOLEAN :
                    OnConnectionAvailable(i, e, ok)
    \/ Alive /\ \E i \in DOMAIN requests, c \in ResponseCodes : OnStreamComplete(i, c)
    \/ Alive /\ FlushMetrics
    \/ Alive /\ WaitForLastPublish
    \/ Alive /\ \E spurious \in BOOLEAN : WaitWake(spurious)
    \/ MetricsPublisherDestructor
    \/ ~Alive /\ s_OnPublishTask("CANCELED")

SpecLifetime == Init /\ [][NextLifetime]_vars

(* ---------------- helpers of the properties ---------------- *)

Min(a, b) == IF a <= b THEN a ELSE b

Range(seq) == { seq[i] : i \in DOMAIN seq }

\* how often each element occurs in a sequence
BagOf(seq) == [x \in Range(seq) |-> Cardinality({ i \in DOMAIN seq : seq[i] = x })]

KeysOf(points) == { MetricKeyOf(points[i]) : i \in DOMAIN points }

BucketsFor(key) == { i \in DOMAIN m_publishData : MetricKeyOf(m_publishData[i]) = key }

RECURSIVE SumFor(_, _)
SumFor(key, points) ==
    IF points = << >> THEN 0
    ELSE (IF MetricKeyOf(Head(points)) = key THEN Head(points).Value ELSE 0)
         + SumFor(key, Tail(points))

\* the first n elements popped from the back of a vector, in pop order
PoppedFrom(vector, n) == [i \in 1..n |-> vector[Len(vector) + 1 - i]]

\* a step of the publish task that finds snapshot and live buffer empty
EmptyTick ==
    /\ publishTaskPending' = publishTaskPending - 1
    /\ m_publishDataTaskCopy = << >>
    /\ m_publishData = << >>

\* a step of the publish task that pops a batch
PopTick ==
    /\ publishTaskPending' = publishTaskPending - 1
    /\ ~(m_publishDataTaskCopy = << >> /\ m_publishData = << >>)

\* a step in which the dispatch of a batch is decided: its request leaves the
\* signing or the acquiring stage for good
DispatchOutcome ==
    \E i \in DOMAIN requests :
        /\ requests[i].stage \in { "signing", "acquiring" }
        /\ \/ requests' = RemoveAt(requests, i)
           \/ requests' = [requests EXCEPT ![i].stage = "streaming"]

(* ---------------- RehydrationEngine ---------------- *)

TickValue == "currentTicks"

StringToMetricUnit(str) ==
    IF \E i \in DOMAIN MetricUnitStr : MetricUnitStr[i] = str
    THEN (CHOOSE i \in DOMAIN MetricUnitStr :
              /\ MetricUnitStr[i] = str
              /\ \A j \in 1..(i - 1) : MetricUnitStr[j] # str) - 1
    ELSE Len(MetricUnitStr) - 1

\* mutant: the scan of the table starts at its second entry
StringToMetricName_SkipFirst(str) ==
    IF \E i \in DOMAIN MetricNameStr : i > 1 /\ MetricNameStr[i] = str
    THEN (CHOOSE i \in DOMAIN MetricNameStr :
              /\ i > 1
              /\ MetricNameStr[i] = str
              /\ \A j \in 2..(i - 1) : MetricNameStr[j] # str) - 1
    ELSE Len(MetricNameStr) - 1

StringToMetricName(str) ==
    IF \E i \in DOMAIN MetricNameStr : MetricNameStr[i] = str
    THEN (CHOOSE i \in DOMAIN MetricNameStr :
              /\ MetricNameStr[i] = str
              /\ \A j \in 1..(i - 1) : MetricNameStr[j] # str) - 1
    ELSE Len(MetricNameStr) - 1

StringToMetricTransferType(str) ==
    IF \E i \in DOMAIN TransferTypeStr : TransferTypeStr[i] = str
    THEN (CHOOSE i \in DOMAIN TransferTypeStr :
              /\ TransferTypeStr[i] = str
              /\ \A j \in 1..(i - 1) : TransferTypeStr[j] # str) - 1
    ELSE TransferNone

\* std::stoull of a string of decimal digits
RECURSIVE stoull(_)
stoull(digits) ==
    IF digits = << >> THEN 0
    ELSE 10 * stoull(SubSeq(digits, 1, Len(digits) - 1)) + digits[Len(digits)]

\* JsonView::GetDouble of a number written with six decimals
GetDouble(micros) == micros * ValuePerMicro

\* JsonView::GetBool of the stored flag
GetBool(flag) == flag = 1

\* the Metric RehydrateBackup builds from one object of the "Metrics" array
ParseMetric(metricJson) ==
    Metric(StringToMetricName(metricJson.Name),
           StringToMetricUnit(metricJson.Unit),
           stoull(metricJson.Timestamp),
           GetDouble(metricJson.Value))

\* what a contents string that is not the stored document parses to: no field
\* is found
UnreadableDocument ==
    [TransferType |-> "", PlatformName |-> "", ToolName |-> "", InstanceType |-> "",
     Encrypted |-> 0, Metrics |-> << >>]

\* the value RehydrateBackup assigns to one of the six optionals
ParsedOverride(field, jsonView) ==
    CASE field = "TransferType" -> StringToMetricTransferType(jsonView.TransferType)
      [] field = "PlatformName" -> jsonView.PlatformName
      [] field = "ToolName" -> jsonView.ToolName
      [] field = "InstanceType" -> jsonView.InstanceType
      [] field = "Encrypted" -> GetBool(jsonView.Encrypted)
      [] field = "ReplayId" -> TickValue

\* RehydrateBackup up to signal.wait: GetObject is issued.  The application
\* calls it once, as the first thing it does with the publisher
RehydrateBackup ==
    /\ callerPc = "idle"
    /\ nCalls = 0
    /\ nCalls' = nCalls + 1
    /\ rehydrate' = [active |-> TRUE, signalVal |-> FALSE, completed |-> FALSE,
                     errorCode |-> AWS_OP_SUCCESS, contents |-> UnreadableDocument,
                     idx |-> 0]
    /\ callerPc' = "downloading"
    /\ UNCHANGED << bufferVars, taskVars, requests, publishTaskPending, notified,
                    forkModeEnabled, poolVars, uploadVars, overrides, taskRunning, liveAdds, nAdds >>

\* mutant: the completion callback releases the caller on an error too
OnGetObjectComplete_SignalOnError(errorCode, intact) ==
    /\ callerPc = "downloading"
    /\ ~rehydrate.completed
    /\ errorCode = AWS_OP_SUCCESS => s3Object.stored
    /\ rehydrate' =
          IF errorCode # AWS_OP_SUCCESS
          THEN [rehydrate EXCEPT !.completed = TRUE, !.errorCode = errorCode,
                                 !.signalVal = TRUE]
          ELSE [rehydrate EXCEPT !.completed = TRUE, !.signalVal = TRUE,
                                 !.contents = IF intact THEN s3Object.contents
                                              ELSE UnreadableDocument]
    /\ UNCHANGED << bufferVars, taskVars, requests, publishTaskPending, callerPc,
                    notified, forkModeEnabled, poolVars, uploadVars, overrides, taskRunning,
                    liveAdds, nAdds, nCalls >>

\* the GetObject callbacks: the body callback appends each chunk with
\* "contents << cur.ptr", which reads the chunk as a NUL-terminated string
\* although a cursor is not one, so contents is the stored document (intact) or
\* something else; the completion callback returns on an error without setting
\* signalVal, and sets it otherwise
OnGetObjectComplete(errorCode, intact) ==
    /\ callerPc = "downloading"
    /\ ~rehydrate.completed
    /\ errorCode = AWS_OP_SUCCESS => s3Object.stored
    /\ rehydrate' =
          IF errorCode # AWS_OP_SUCCESS
          THEN [rehydrate EXCEPT !.completed = TRUE, !.errorCode = errorCode]
          ELSE [rehydrate EXCEPT !.completed = TRUE, !.signalVal = TRUE,
                                 !.contents = IF intact THEN s3Object.contents
                                              ELSE UnreadableDocument]
    /\ UNCHANGED << bufferVars, taskVars, requests, publishTaskPending, callerPc,
                    notified, forkModeEnabled, poolVars, uploadVars, overrides, taskRunning,
                    liveAdds, nAdds, nCalls >>

\* signal.wait returns once signalVal is set; the contents are parsed
RehydrateParse ==
    /\ callerPc = "downloading"
    /\ rehydrate.signalVal
    /\ callerPc' = "overriding"
    /\ UNCHANGED << bufferVars, taskVars, requests, publishTaskPending, notified,
                    forkModeEnabled, poolVars, uploadVars, replayVars, liveAdds, nAdds,
                    nCalls >>

\* one of the six assignments m_transferTypeOverride = .. m_replayId = currentTicks,
\* in source order; no lock is held
RehydrateSetOverride ==
    /\ callerPc = "overriding"
    /\ LET field == OverrideFields[rehydrate.idx + 1] IN
          overrides' = [overrides EXCEPT
                          ![field] = Optional(ParsedOverride(field, rehydrate.contents))]
    /\ IF rehydrate.idx + 1 < Len(OverrideFields)
       THEN /\ rehydrate' = [rehydrate EXCEPT !.idx = @ + 1]
            /\ UNCHANGED callerPc
       ELSE /\ rehydrate' = [rehydrate EXCEPT !.idx = 0]
            /\ callerPc' = "adding"
    /\ UNCHANGED << bufferVars, taskVars, requests, publishTaskPending, notified,
                    forkModeEnabled, poolVars, uploadVars, taskRunning, liveAdds, nAdds,
                    nCalls >>

\* one iteration of the loop over the "Metrics" array: AddDataPoint(metric)
RehydrateAddDataPoint ==
    /\ callerPc = "adding"
    /\ rehydrate.idx < Len(rehydrate.contents.Metrics)
    /\ LET metric == ParseMetric(rehydrate.contents.Metrics[rehydrate.idx + 1])
           buf == AddDataPointInternal(LiveBuffer, metric)
       IN /\ m_publishData' = buf.data
          /\ m_publishDataLU' = buf.lu
          /\ liveAdds' = Append(liveAdds, metric)
    /\ rehydrate' = [rehydrate EXCEPT !.idx = @ + 1]
    /\ UNCHANGED << taskVars, requests, publishTaskPending, callerPc, notified,
                    forkModeEnabled, poolVars, uploadVars, overrides, taskRunning,
                    nAdds, nCalls >>

\* after the loop: SchedulePublish(); WaitForLastPublish() is next
RehydrateSchedulePublish ==
    /\ callerPc = "adding"
    /\ rehydrate.idx = Len(rehydrate.contents.Metrics)
    /\ publishTaskPending' \in SchedulePublish(publishTaskPending)
    /\ rehydrate' = [rehydrate EXCEPT !.idx = 0]
    /\ callerPc' = "flush"
    /\ UNCHANGED << bufferVars, taskVars, requests, notified, forkModeEnabled, poolVars,
                    uploadVars, overrides, taskRunning, liveAdds, nAdds, nCalls >>

\* mutant: the last statement, m_replayId = Optional<uint64_t>(), is missing
ClearedOverride_KeepReplayId(field) ==
    IF field = "ReplayId" THEN overrides[field] ELSE NoValue

\* the value the statements after the wait assign to each optional
ClearedOverride(field) == NoValue

\* one of the six assignments that empty the optionals, in source order; no
\* lock is held; RehydrateBackup returns after the last
RehydrateClearOverride ==
    /\ callerPc = "clearing"
    /\ LET field == OverrideFields[rehydrate.idx + 1] IN
          overrides' = [overrides EXCEPT ![field] = ClearedOverride(field)]
    /\ IF rehydrate.idx + 1 < Len(OverrideFields)
       THEN /\ rehydrate' = [rehydrate EXCEPT !.idx = @ + 1]
            /\ UNCHANGED callerPc
       ELSE /\ rehydrate' = NoRehydrate
            /\ callerPc' = "idle"
    /\ UNCHANGED << bufferVars, taskVars, requests, publishTaskPending, notified,
                    forkModeEnabled, poolVars, uploadVars, taskRunning, liveAdds, nAdds,
                    nCalls >>

\* s_OnPublishTask while the context can change under it, in two steps.  First
\* the part up to WriteToBackup: the locked snapshot section, the pop loop and
\* the append to the log
s_OnPublishTask_Locked ==
    /\ publishTaskPending > 0
    /\ ~taskRunning
    /\ publishTaskPending' = publishTaskPending - 1
    /\ LET snap == TakeSnapshot(m_publishDataTaskCopy, LiveBuffer) IN
         /\ m_publishData' = snap.data
         /\ m_publishDataLU' = snap.lu
         /\ notified' = IF snap.notify THEN NotifyAll ELSE notified
         /\ liveAdds' = IF snap.data = << >> THEN << >> ELSE liveAdds
         /\ drained' = IF snap.data # m_publishData
                       THEN drained \o m_publishData
                       ELSE drained
         /\ IF snap.return
            THEN UNCHANGED << m_publishDataTaskCopy, m_metricsBackup, metricsSlice,
                              taskRunning >>
            ELSE LET popped == PopSlice(snap.copy, << >>) IN
                 /\ m_publishDataTaskCopy' = popped.copy
                 /\ metricsSlice' = popped.slice
                 /\ m_metricsBackup' = WriteToBackup(m_metricsBackup, popped.slice)
                 /\ taskRunning' = TRUE
    /\ UNCHANGED << requests, callerPc, forkModeEnabled, poolVars, uploadVars, overrides,
                    rehydrate, nAdds, nCalls >>

\* then PreparePayload, which reads the six optionals without a lock, and
\* SignRequest
s_OnPublishTask_Encode ==
    /\ taskRunning
    /\ taskRunning' = FALSE
    /\ requests' = Append(requests, NewRequest(metricsSlice))
    /\ UNCHANGED << bufferVars, taskVars, publishTaskPending, callerPc, notified,
                    forkModeEnabled, poolVars, uploadVars, overrides, rehydrate, liveAdds,
                    nAdds, nCalls >>

\* the backup logs of the earlier run: one key drained in two intervals, and
\* the large vector drained at once and popped from the back
StoredLogs ==
    { << Metric(BytesUp, UnitBytes, 1500, 25), Metric(BytesUp, UnitBytes, 1500, 25) >>,
      PoppedFrom(BulkVector, BulkLen) }

\* the process starts with a document of an earlier run in the store
\* the document the earlier run's UploadBackup wrote from its backup log
StoredDocument(log) ==
    BackupDocument(EarlierContext.TransferType, EarlierContext.PlatformName,
                   EarlierContext.ToolName, EarlierContext.InstanceType,
                   EarlierContext.Encrypted, log)

InitReplay ==
    /\ m_publishData = << >>
    /\ m_publishDataLU = << >>
    /\ m_publishDataTaskCopy = << >>
    /\ m_metricsBackup = << >>
    /\ metricsSlice = << >>
    /\ requests = << >>
    /\ publishTaskPending = 0
    /\ callerPc = "idle"
    /\ notified = FALSE
    /\ forkModeEnabled = FALSE
    /\ putObject = NoPut
    /\ \E log \in StoredLogs :
          s3Object = [stored |-> TRUE, contents |-> StoredDocument(log)]
    /\ uploadResult = "none"
    /\ liveAdds = << >>
    /\ drained = << >>
    /\ overrides = NoOverrides
    /\ rehydrate = NoRehydrate
    /\ taskRunning = FALSE
    /\ manager = NewManager(FALSE)
    /\ pool = NewPool
    /\ acquires = << >>
    /\ nAdds = 0
    /\ nCalls = 0

NextReplay ==
    \/ RehydrateBackup
    \/ \E e \in ErrorCodes, intact \in BOOLEAN : OnGetObjectComplete(e, intact)
    \/ RehydrateParse
    \/ RehydrateSetOverride
    \/ RehydrateAddDataPoint
    \/ RehydrateSchedulePublish
    \/ WaitForLastPublish
    \/ \E spurious \in BOOLEAN : WaitWake(spurious)
    \/ RehydrateClearOverride
    \/ s_OnPublishTask_Locked
    \/ s_OnPublishTask_Encode
    \/ \E i \in DOMAIN requests, e \in ErrorCodes, ok \in BOOLEAN : OnSigningComplete(i, e, ok)
    \/ \E i \in DOMAIN requests, e \in ErrorCodes, ok \in BOOLEAN : OnConnectionAvailable(i, e, ok)
    \/ \E i \in DOMAIN requests, c \in ResponseCodes : OnStreamComplete(i, c)

SpecReplay == InitReplay /\ [][NextReplay]_vars

(* ---------------- replay of documents with arbitrary strings ---------------- *)

\* the values of the three enumerations that have an entry in their table
MetricNames == 0..(Len(MetricNameStr) - 1)
MetricUnits == 0..(Len(MetricUnitStr) - 1)
TransferTypes == 0..(Len(TransferTypeStr) - 1)

\* strings no table holds: the empty string a missing field reads as, a table
\* entry in another case (strcmp is case sensitive), a foreign word
UnknownStrings == { "", "bytes", "Bogus" }

NameStrings == { MetricNameToStr(name) : name \in MetricNames } \cup UnknownStrings
UnitStrings == { UnitToStr(unit) : unit \in MetricUnits } \cup UnknownStrings
TransferTypeStrings ==
    { MetricTransferTypeToString(t) : t \in TransferTypes } \cup UnknownStrings

\* a stored document with one metric whose transfer type, name and unit fields
\* hold the given strings
EnumDocument(transferTypeStr, nameStr, unitStr) ==
    [StoredDocument(<< Metric(BytesUp, UnitBytes, 1500, 25) >>)
        EXCEPT !.TransferType = transferTypeStr,
               !.Metrics = << [@[1] EXCEPT !.Name = nameStr, !.Unit = unitStr] >>]

\* the documents replayed: each field ranges over its strings while the other
\* two are what an earlier run wrote
EnumDocuments ==
    { EnumDocument(ts, MetricNameToStr(BytesUp), UnitToStr(UnitBytes)) :
          ts \in TransferTypeStrings }
    \cup { EnumDocument(MetricTransferTypeToString(MultiPart), ns, UnitToStr(UnitBytes)) :
          ns \in NameStrings }
    \cup { EnumDocument(MetricTransferTypeToString(MultiPart), MetricNameToStr(BytesUp), us) :
          us \in UnitStrings }

InitEnum ==
    /\ m_publishData = << >>
    /\ m_publishDataLU = << >>
    /\ m_publishDataTaskCopy = << >>
    /\ m_metricsBackup = << >>
    /\ metricsSlice = << >>
    /\ requests = << >>
    /\ publishTaskPending = 0
    /\ callerPc = "idle"
    /\ notified = FALSE
    /\ forkModeEnabled = FALSE
    /\ putObject = NoPut
    /\ \E document \in EnumDocuments :
          s3Object = [stored |-> TRUE, contents |-> document]
    /\ uploadResult = "none"
    /\ liveAdds = << >>
    /\ drained = << >>
    /\ overrides = NoOverrides
    /\ rehydrate = NoRehydrate
    /\ taskRunning = FALSE
    /\ manager = NewManager(FALSE)
    /\ pool = NewPool
    /\ acquires = << >>
    /\ nAdds = 0
    /\ nCalls = 0

SpecEnum == InitEnum /\ [][NextReplay]_vars

(* ---------------- ConnectionPool ---------------- *)
(* HttpClientConnectionManager (src/source/http/HttpConnectionManager.cpp)  *)
(* over the underlying aws_http_connection_manager.  The underlying pool is *)
(* not part of the sources; its bookkeeping follows the specification's     *)
(* ConnectionPool: leasedCount, freeConnections, pendingAcquireQueue.       *)

publisherVars ==
    << bufferVars, taskVars, requests, publishTaskPending, callerPc, notified,
       forkModeEnabled, uploadVars, liveAdds, replayVars, nAdds, nCalls >>

\* the process has not been ended by std::terminate
Running == manager.state # "terminated"

\* mutant: ManagedConnection keeps a plain pointer to the manager
UseCount_HandleHoldsNoReference(m, acq) ==
    (IF m.owner THEN 1 ELSE 0)
        + Cardinality({ i \in DOMAIN acq : acq[i].stage = "pending" })

\* the shared_ptr references to the manager: the owner's, one in each
\* ConnectionManagerCallbackArgs in flight, one in each live ManagedConnection
UseCount(m, acq) ==
    (IF m.owner THEN 1 ELSE 0)
        + Cardinality({ i \in DOMAIN acq : acq[i].stage \in { "pending", "leased" } })

\* aws_http_connection_manager_release: the manager's hold on the pool ends
ReleaseHold(p) == [p EXCEPT !.shuttingDown = TRUE, !.holdReleases = @ + 1]

\* aws_http_connection_manager_release_connection: the connection goes back to
\* the free set, or is closed when the pool is shutting down
ReleaseConnection(p) ==
    IF p.shuttingDown
    THEN [p EXCEPT !.leasedCount = @ - 1]
    ELSE [p EXCEPT !.leasedCount = @ - 1, !.freeConnections = @ + 1]

\* ~HttpClientConnectionManager: releases the hold and waits for the promise
\* unless InitiateShutdown was called
Destructor(m, p) ==
    IF m.m_releaseInvoked
    THEN [manager |-> [m EXCEPT !.state = "destroyed"], pool |-> p]
    ELSE [manager |-> [m EXCEPT !.state = IF m.m_shutdownPromise
                                           THEN "destroyed" ELSE "waiting"],
          pool |-> ReleaseHold(p)]

\* a shared_ptr to the manager went away: the last one runs the destructor
DropReference(m, p, acq) ==
    IF UseCount(m, acq) = 0 /\ m.state = "alive"
    THEN Destructor(m, p)
    ELSE [manager |-> m, pool |-> p]

\* an AcquireConnection call: "callbacks" counts the invocations of its
\* onClientConnectionAvailable, errorCode is what the last one was given
NewAcquire(stage) == [stage |-> stage, callbacks |-> 0, errorCode |-> AWS_OP_SUCCESS]

\* callback(connection, errorCode) of acquisition a; it has the connection
\* exactly in stage "leased"
Callback(a, stage, errorCode) ==
    [stage |-> stage, callbacks |-> a.callbacks + 1, errorCode |-> errorCode]

\* AcquireConnection: returns false when the callback arguments cannot be
\* allocated ("refused": no callback will be delivered), otherwise hands the
\* request to the underlying pool, whatever m_releaseInvoked is
AcquireConnection(allocOk) ==
    /\ manager.owner
    /\ manager.state = "alive"
    /\ Len(acquires) < MaxAcquires
    /\ IF allocOk
       THEN /\ acquires' = Append(acquires, NewAcquire("pending"))
            /\ pool' = [pool EXCEPT !.pendingAcquireQueue = Append(@, Len(acquires) + 1)]
       ELSE /\ acquires' = Append(acquires, NewAcquire("refused"))
            /\ UNCHANGED pool
    /\ UNCHANGED << manager, publisherVars >>

\* mutant: the connection is not released when the handle cannot be allocated
s_onConnectionSetup_KeepConnection(acq, p, i, errorCode, handleAllocOk) ==
    IF errorCode # AWS_OP_SUCCESS
    THEN [acquires |-> [acq EXCEPT ![i] = Callback(@, "failed", errorCode)],
          pool |-> p]
    ELSE IF ~handleAllocOk
         THEN [acquires |-> [acq EXCEPT ![i] = Callback(@, "failed", AWS_ERROR_OOM)],
               pool |-> p]
         ELSE [acquires |-> [acq EXCEPT ![i] = Callback(@, "leased", AWS_OP_SUCCESS)],
               pool |-> p]

\* s_onConnectionSetup for acquisition i: the callback gets the error, or a
\* ManagedConnection; when the handle cannot be allocated the connection is
\* released and the callback gets AWS_ERROR_OOM
s_onConnectionSetup(acq, p, i, errorCode, handleAllocOk) ==
    IF errorCode # AWS_OP_SUCCESS
    THEN [acquires |-> [acq EXCEPT ![i] = Callback(@, "failed", errorCode)],
          pool |-> p]
    ELSE IF ~handleAllocOk
         THEN [acquires |-> [acq EXCEPT ![i] = Callback(@, "failed", AWS_ERROR_OOM)],
               pool |-> ReleaseConnection(p)]
         ELSE [acquires |-> [acq EXCEPT ![i] = Callback(@, "leased", AWS_OP_SUCCESS)],
               pool |-> p]

\* the pool serves the oldest queued acquisition: with a free connection if
\* there is one, else with a new connection (which may fail to connect) while
\* leasedCount + freeConnections is below MaxConnections; then the setup
\* callback runs and its reference to the manager goes away
PoolServe(connError, handleAllocOk) ==
    /\ Running
    /\ pool.pendingAcquireQueue # << >>
    /\ ~pool.shutdownComplete
    /\ \/ pool.freeConnections > 0
       \/ pool.leasedCount + pool.freeConnections < MaxConnections
    /\ LET i == Head(pool.pendingAcquireQueue)
           reuse == pool.freeConnections > 0
           errorCode == IF reuse THEN AWS_OP_SUCCESS ELSE connError
           dequeued == [pool EXCEPT !.pendingAcquireQueue = Tail(@)]
           leased == IF errorCode # AWS_OP_SUCCESS
                     THEN dequeued
                     ELSE [dequeued EXCEPT !.leasedCount = @ + 1,
                                           !.freeConnections = IF reuse THEN @ - 1 ELSE @]
           setup == s_onConnectionSetup(acquires, leased, i, errorCode, handleAllocOk)
           after == DropReference(manager, setup.pool, setup.acquires)
       IN /\ acquires' = setup.acquires
          /\ manager' = after.manager
          /\ pool' = after.pool
    /\ UNCHANGED publisherVars

\* mutant: the destructor leaves m_connection set, so the handle can release
\* its connection again
ReleaseHandle_KeepConnection(i) ==
    /\ Running
    /\ i \in DOMAIN acquires
    /\ acquires[i].stage = "leased"
    /\ pool.leasedCount + pool.freeConnections > 0
    /\ pool' = ReleaseConnection(pool)
    /\ UNCHANGED << manager, acquires, publisherVars >>

\* ~ManagedConnection of the handle of acquisition i
ReleaseHandle(i) ==
    /\ Running
    /\ i \in DOMAIN acquires
    /\ acquires[i].stage = "leased"
    /\ LET released == [acquires EXCEPT ![i].stage = "released"]
           after == DropReference(manager, ReleaseConnection(pool), released)
       IN /\ acquires' = released
          /\ manager' = after.manager
          /\ pool' = after.pool
    /\ UNCHANGED publisherVars

\* InitiateShutdown, called by the owner; the future it returns is ready when
\* m_shutdownPromise is set.  A second call releases the hold again, and its
\* get_future() throws std::future_error out of a noexcept function, which
\* ends the process
InitiateShutdown ==
    /\ manager.owner
    /\ manager.state = "alive"
    /\ manager' = [manager EXCEPT !.m_releaseInvoked = TRUE,
                                  !.state = IF manager.m_releaseInvoked
                                            THEN "terminated" ELSE @]
    /\ pool' = ReleaseHold(pool)
    /\ UNCHANGED << acquires, publisherVars >>

\* the pool, its hold released and no connection leased, closes its free
\* connections and completes its shutdown; s_shutdownCompleted, registered
\* only with EnableBlockingShutdown, sets the promise (on a manager that may
\* have been destroyed already, where the write may or may not show)
PoolShutdownComplete ==
    /\ Running
    /\ pool.shuttingDown
    /\ ~pool.shutdownComplete
    /\ pool.leasedCount = 0
    /\ pool' = [pool EXCEPT !.freeConnections = 0, !.shutdownComplete = TRUE]
    /\ IF ~manager.EnableBlockingShutdown
       THEN UNCHANGED manager
       ELSE IF manager.state = "destroyed"
            THEN manager' \in { manager, [manager EXCEPT !.m_shutdownPromise = TRUE] }
            ELSE manager' = [manager EXCEPT !.m_shutdownPromise = TRUE]
    /\ UNCHANGED << acquires, publisherVars >>

\* the destructor's m_shutdownPromise.get_future().get() returns
DestructorReturn ==
    /\ manager.state = "waiting"
    /\ manager.m_shutdownPromise
    /\ manager' = [manager EXCEPT !.state = "destroyed"]
    /\ UNCHANGED << pool, acquires, publisherVars >>

\* the owner lets go of its shared_ptr
ReleaseOwner ==
    /\ Running
    /\ manager.owner
    /\ LET dropped == [manager EXCEPT !.owner = FALSE]
           after == DropReference(dropped, pool, acquires)
       IN /\ manager' = after.manager
          /\ pool' = after.pool
    /\ UNCHANGED << acquires, publisherVars >>

InitPool ==
    /\ m_publishData = << >>
    /\ m_publishDataLU = << >>
    /\ m_publishDataTaskCopy = << >>
    /\ m_metricsBackup = << >>
    /\ metricsSlice = << >>
    /\ requests = << >>
    /\ publishTaskPending = 0
    /\ callerPc = "idle"
    /\ notified = FALSE
    /\ forkModeEnabled = FALSE
    /\ putObject = NoPut
    /\ s3Object = NoObject
    /\ uploadResult = "none"
    /\ liveAdds = << >>
    /\ drained = << >>
    /\ overrides = NoOverrides
    /\ rehydrate = NoRehydrate
    /\ taskRunning = FALSE
    /\ \E enableBlockingShutdown \in BOOLEAN : manager = NewManager(enableBlockingShutdown)
    /\ pool = NewPool
    /\ acquires = << >>
    /\ nAdds = 0
    /\ nCalls = 0

NextPool ==
    \/ \E allocOk \in BOOLEAN : AcquireConnection(allocOk)
    \/ \E e \in SetupErrorCodes, handleAllocOk \in BOOLEAN : PoolServe(e, handleAllocOk)
    \/ \E i \in DOMAIN acquires : ReleaseHandle(i)
    \/ InitiateShutdown
    \/ PoolShutdownComplete
    \/ DestructorReturn
    \/ ReleaseOwner

SpecPool == InitPool /\ [][NextPool]_vars

(* ---------------- properties ---------------- *)

\* C1: whatever the order of the AddDataPoint / AddDataPoints calls, each key
\* that received points since the buffer was last emptied has exactly one
\* bucket in the live buffer, and its value is the sum of those points' values.
C1_BucketHoldsSum ==
    \A key \in KeysOf(liveAdds) :
        /\ Cardinality(BucketsFor(key)) = 1
        /\ \A i \in BucketsFor(key) : m_publishData[i].Value = SumFor(key, liveAdds)

\* two calls contributed to one key: the BytesUp points 500 ms apart are one bucket
C1_Witness ==
    /\ nAdds >= 2
    /\ \E i \in DOMAIN liveAdds, j \in DOMAIN liveAdds :
        /\ i # j
        /\ liveAdds[i].Name = BytesUp /\ liveAdds[j].Name = BytesUp
        /\ liveAdds[i].Timestamp = 1000 /\ liveAdds[j].Timestamp = 1500
    /\ \E i \in DOMAIN m_publishData :
        m_publishData[i].Name = BytesUp /\ m_publishData[i].Value = 35

\* C2: the live buffer holds at most one point per MetricKey and the index maps
\* each buffered point's key to its position, and nothing else; the step that
\* drains the buffer leaves buffer and index empty.
C2_IndexMatchesBuffer ==
    /\ [](/\ DOMAIN m_publishDataLU = KeysOf(m_publishData)
          /\ Cardinality(DOMAIN m_publishDataLU) = Len(m_publishData)
          /\ \A i \in DOMAIN m_publishData :
                m_publishDataLU[MetricKeyOf(m_publishData[i])] = i - 1)
    /\ [][m_publishDataTaskCopy = << >> /\ m_metricsBackup' # m_metricsBackup
            => m_publishData' = << >> /\ DOMAIN m_publishDataLU' = {}]_vars

\* a buffer of many buckets, one of them merged from two points
C2_Witness ==
    /\ Len(m_publishData) = BulkLen
    /\ Len(liveAdds) > BulkLen

\* C3: the batch a publish tick pops, which is what it appends to the backup log
\* and puts into the request handed to the signer, never has more than 20 points.
C3_BatchWithinCap ==
    /\ Len(metricsSlice) <= MaxPerRequest
    /\ Len(m_metricsBackup) >= Len(metricsSlice)
    /\ SubSeq(m_metricsBackup, Len(m_metricsBackup) - Len(metricsSlice) + 1,
              Len(m_metricsBackup)) = metricsSlice
    /\ \A i \in DOMAIN requests : Len(requests[i].metrics) <= MaxPerRequest

\* a snapshot of more than 20 buckets was drained and a full batch popped from it
C3_Witness ==
    /\ Len(metricsSlice) = MaxPerRequest
    /\ m_publishDataTaskCopy # << >>
    /\ \E i \in DOMAIN requests : requests[i].metrics = metricsSlice

\* C4: while the carried-over snapshot is non-empty, a publish tick pops from
\* that snapshot only and leaves the live buffer and its index as they are.
C4_ExhaustBeforeRedrain ==
    [][m_publishDataTaskCopy # << >> /\ publishTaskPending' = publishTaskPending - 1
         => /\ m_publishData' = m_publishData
            /\ m_publishDataLU' = m_publishDataLU
            /\ drained' = drained
            /\ \E n \in 1..Len(m_publishDataTaskCopy) :
                /\ m_publishDataTaskCopy' =
                       SubSeq(m_publishDataTaskCopy, 1, Len(m_publishDataTaskCopy) - n)
                /\ metricsSlice' = PoppedFrom(m_publishDataTaskCopy, n)]_vars

\* a tick has left part of its snapshot behind, points were added to the live
\* buffer since, and the next tick is queued
C4_Witness ==
    /\ m_publishDataTaskCopy # << >>
    /\ Len(m_metricsBackup) = MaxPerRequest
    /\ m_publishData # << >>
    /\ publishTaskPending > 0

\* C5: each tick pops min(20, remaining) points of the snapshot, and every
\* drained bucket is in exactly one batch: the buckets drained so far are those
\* of the batches written so far plus those still in the snapshot.  (This holds
\* initially, every popping tick re-establishes it, and no other step changes
\* the three sequences.)
C5_EveryBucketInOneBatch ==
    /\ BagOf(drained) = BagOf(m_metricsBackup \o m_publishDataTaskCopy)
    /\ [](Len(drained) = Len(m_metricsBackup) + Len(m_publishDataTaskCopy))
    /\ [][PopTick =>
            LET snapshot == IF m_publishDataTaskCopy = << >>
                            THEN m_publishData ELSE m_publishDataTaskCopy
                n == Min(MaxPerRequest, Len(snapshot))
            IN /\ Len(metricsSlice') = n
               /\ Len(m_publishDataTaskCopy') = Len(snapshot) - n
               /\ requests' = Append(requests, NewRequest(metricsSlice'))
               /\ BagOf(drained') = BagOf(m_metricsBackup' \o m_publishDataTaskCopy')]_vars
    /\ [][~PopTick
            => /\ drained' = drained
               /\ m_metricsBackup' = m_metricsBackup
               /\ m_publishDataTaskCopy' = m_publishDataTaskCopy]_vars

\* a snapshot of more than 20 buckets went out as 20 and then the rest
C5_Witness ==
    /\ Len(drained) = BulkLen
    /\ Len(m_metricsBackup) = BulkLen
    /\ Len(metricsSlice) = BulkLen - MaxPerRequest
    /\ m_publishDataTaskCopy = << >>

\* C6 as claimed: whenever the dispatch of a batch is decided, the publish task
\* is queued afterwards, whatever the outcome.
C6_RescheduledAfterEveryOutcome ==
    [][DispatchOutcome => publishTaskPending' >= 1]_vars

\* C7 as claimed: a tick that finds snapshot and live buffer empty notifies the
\* waiter, starts no request, writes nothing to the backup log, and leaves the
\* publish task queued for the next period.
C7_EmptyTickReschedules ==
    [][EmptyTick =>
            /\ (callerPc = "waiting" => notified')
            /\ requests' = requests
            /\ m_metricsBackup' = m_metricsBackup
            /\ publishTaskPending' >= 1]_vars

\* C8 as claimed: the tick that swaps a non-empty buffer out wakes the waiter.
C8_DrainWakesWaiter ==
    [][m_publishData # << >> /\ m_publishData' = << >> /\ callerPc = "waiting"
         => notified']_vars

\* C8 amended: a blocked waiter is notified by the tick that finds both the
\* snapshot and the live buffer empty, and by no other step (the tick that swaps
\* a non-empty buffer out notifies no one); the waiter returns only when the
\* live buffer is empty.
C8_WaiterNotifiedByEmptyTick ==
    /\ [][EmptyTick /\ callerPc = "waiting" => notified']_vars
    /\ [][~notified /\ notified' => EmptyTick /\ callerPc = "waiting"]_vars
    /\ [][callerPc = "waiting" /\ callerPc' # "waiting" => Len(m_publishData) = 0]_vars

\* a waiter that blocked on a non-empty buffer has been notified, after the drain
C8_Witness ==
    /\ callerPc = "waiting"
    /\ notified
    /\ m_publishData = << >>
    /\ m_metricsBackup # << >>

\* C9: a step that ends or advances a request (sign, acquire or stream callback,
\* failed or not) puts nothing back: live buffer, index and snapshot stay as
\* they are, so the points of a failed batch are in no later batch.
C9_FailedBatchDropped ==
    [][requests' # requests /\ m_metricsBackup' = m_metricsBackup
         => /\ m_publishData' = m_publishData
            /\ m_publishDataLU' = m_publishDataLU
            /\ m_publishDataTaskCopy' = m_publishDataTaskCopy
            /\ drained' = drained]_vars

\* the request of a popped batch ended without its acquire callback (signing
\* failed, or the acquisition was refused): nothing is queued, nothing is in
\* flight, and the rest of the snapshot is still waiting
C9_Witness ==
    /\ metricsSlice # << >>
    /\ requests = << >>
    /\ publishTaskPending = 0
    /\ m_publishDataTaskCopy # << >>
    /\ \A i \in DOMAIN metricsSlice :
          metricsSlice[i] \notin Range(m_publishData) \cup Range(m_publishDataTaskCopy)

\* C10: the backup log changes only in a publish tick that pops a batch, which
\* appends the popped points in pop order while the request is still to be
\* signed; every other step leaves the log as it is, so no entry is ever
\* removed or rewritten.
C10_BackupAppendOnlyByTick ==
    [][m_metricsBackup' # m_metricsBackup =>
            LET snapshot == IF m_publishDataTaskCopy = << >>
                            THEN m_publishData ELSE m_publishDataTaskCopy
            IN /\ PopTick
               /\ metricsSlice' = PoppedFrom(snapshot, Len(metricsSlice'))
               /\ m_metricsBackup' = m_metricsBackup \o metricsSlice'
               /\ requests'[Len(requests')] = NewRequest(metricsSlice')
               /\ callerPc' = callerPc]_vars

\* two batches are in the log, and an UploadBackup has stored a document since
C10_Witness ==
    /\ Len(m_metricsBackup) > MaxPerRequest
    /\ s3Object.stored
    /\ uploadResult = "s3BackupPath"

\* everything added so far has been drained, popped and dispatched
Quiescent ==
    /\ m_publishData = << >>
    /\ m_publishDataTaskCopy = << >>
    /\ requests = << >>

\* a publish tick that finds no carried-over snapshot and drains the live buffer
DrainTick ==
    /\ PopTick
    /\ m_publishDataTaskCopy = << >>
    /\ m_publishData # << >>

\* C11 as claimed: the log is the list of the points as they were added.  A
\* tick that drains an interval of at most 20 points, which it pops and logs in
\* one batch, then appends one entry per point added in the interval, in append
\* order.
C11_LogHoldsEveryPoint ==
    [][DrainTick /\ Len(liveAdds) <= MaxPerRequest
         => m_metricsBackup' = m_metricsBackup \o liveAdds]_vars

\* C11 amended: the log records drained buckets, not added points.  A drain
\* moves one bucket per MetricKey added in the interval into the snapshot, with
\* the values of the key's points summed, and once everything has been drained
\* and dispatched the log holds exactly the buckets that were drained, each
\* once (a key drained in two intervals has two entries).
C11_LogHoldsDrainedBuckets ==
    /\ [](Quiescent => BagOf(m_metricsBackup) = BagOf(drained))
    /\ [][DrainTick
            => /\ drained' = drained \o m_publishData
               /\ KeysOf(m_publishData) = KeysOf(liveAdds)
               /\ Len(m_publishData) = Cardinality(KeysOf(liveAdds))
               /\ \A i \in DOMAIN m_publishData :
                     m_publishData[i].Value =
                         SumFor(MetricKeyOf(m_publishData[i]), liveAdds)]_vars

\* two points of one key were added before the drain: the log has one entry,
\* with the sum of their values
C11_Witness ==
    /\ Quiescent
    /\ nAdds = 2
    /\ \E p \in SinglePoints :
          m_metricsBackup = << [p EXCEPT !.Value = 2 * p.Value] >>

EmptyBuffer == [data |-> << >>, lu |-> << >>]

\* RehydrateBackup has re-added every point of the document it downloaded, and
\* no tick has drained the buffer yet
ReplayAdded ==
    /\ callerPc = "adding"
    /\ rehydrate.idx = Len(rehydrate.contents.Metrics)
    /\ drained = << >>

\* C12 as claimed: when RehydrateBackup has re-added the points of the document
\* UploadBackup wrote, the aggregation buffer holds the buckets that adding the
\* backup log itself, point by point, produces.
C12_ReplayReproducesBuckets ==
    \A log \in StoredLogs :
        ReplayAdded /\ rehydrate.contents = StoredDocument(log)
            => Range(m_publishData) = Range(AddEach(EmptyBuffer, log).data)

\* a step in which the publish task encodes a batch (PreparePayload) and hands
\* the request to the signer
EncodeStep == Len(requests') > Len(requests)

\* which of the six optionals hold a value
OverridesSet == { f \in DOMAIN overrides : overrides[f].has_value }

\* C13 as claimed: RehydrateBackup starts to clear the overrides and the replay
\* id only when every point it re-added has been popped and encoded, and every
\* batch of replayed points is encoded with the replay id set.
C13_ClearedAfterReplayDrained ==
    /\ [][callerPc = "clearing" /\ overrides' # overrides
            => /\ m_publishData = << >>
               /\ m_publishDataTaskCopy = << >>
               /\ ~taskRunning]_vars
    /\ [][EncodeStep => requests'[Len(requests')].dimensions.ReplayId.has_value]_vars

\* C14 as claimed: whenever a batch is encoded, the six optionals are all set
\* or all empty.
C14_ContextSwitchedAtomically ==
    [][EncodeStep => OverridesSet \in { {}, DOMAIN overrides }]_vars

\* the dimensions of a batch encoded with no override and no replay id
RunDimensions ==
    [Platform |-> RunContext.PlatformName,
     ToolName |-> RunContext.ToolName,
     InstanceType |-> RunContext.InstanceType,
     TransferType |-> MetricTransferTypeToString(RunContext.TransferType),
     Encrypted |-> RunContext.Encrypted,
     ReplayId |-> NoValue]

\* C15: when RehydrateBackup returns after a successful download, and as long
\* as no RehydrateBackup call is in progress, the six optionals are empty: the
\* getters give the values of the run, and a batch encoded then has the run's
\* dimensions and no ReplayId dimension.
C15_ContextRestoredOnReturn ==
    /\ [][callerPc = "clearing" /\ callerPc' = "idle" => OverridesSet' = {}]_vars
    /\ [](~rehydrate.active => OverridesSet = {} /\ PreparePayload = RunDimensions)
    /\ [][EncodeStep /\ ~rehydrate.active
            => requests'[Len(requests')].dimensions = RunDimensions]_vars

\* a replay has returned and a batch encoded after the return is being signed
C15_Witness ==
    /\ ~rehydrate.active
    /\ m_metricsBackup # << >>
    /\ \E i \in DOMAIN requests :
          /\ requests[i].stage = "signing"
          /\ requests[i].dimensions = RunDimensions

\* the download of the RehydrateBackup call in progress has completed with an error
DownloadFailed ==
    /\ rehydrate.active
    /\ rehydrate.completed
    /\ rehydrate.errorCode # AWS_OP_SUCCESS

\* C16: once the download has completed with an error, the call does nothing
\* more: the six optionals stay empty, no point is added to the buffer, the
\* call's position does not move, and the publish task is scheduled by no one
\* but the acquire callback of a request that was already in flight.
C16_FailedDownloadChangesNothing ==
    /\ [](DownloadFailed => OverridesSet = {} /\ callerPc = "downloading")
    /\ [][DownloadFailed
            => /\ overrides' = overrides
               /\ Len(liveAdds') <= Len(liveAdds)
               /\ Len(m_publishData') <= Len(m_publishData)
               /\ callerPc' = callerPc
               /\ rehydrate' = rehydrate
               /\ (publishTaskPending' > publishTaskPending => requests' # requests)]_vars

\* the download has failed: nothing was overridden, added or scheduled
C16_Witness ==
    /\ DownloadFailed
    /\ overrides = NoOverrides
    /\ liveAdds = << >>
    /\ m_publishData = << >>
    /\ publishTaskPending = 0

\* C17 as claimed: after a download error the call does not keep waiting: the
\* predicate of its signal.wait holds, so the call can leave the wait and return.
C17_ReturnsOnDownloadError ==
    DownloadFailed => rehydrate.signalVal

\* C18: UploadBackup with backups enabled issues one PutObject, on entry, and
\* none while it waits; it returns the derived path only when the completion
\* callback has set signalVal, whatever the error code was.  In fork mode it
\* returns the empty string and no PutObject is ever issued.  No step of an
\* upload changes the backup log or the aggregation buffer.
C18_UploadWaitsForCompletion ==
    /\ [](callerPc = "uploading" <=> putObject.pending)
    /\ [](forkModeEnabled
            => putObject = NoPut /\ ~s3Object.stored /\ uploadResult \in { "none", "" })
    /\ [](~forkModeEnabled => uploadResult \in { "none", "s3BackupPath" })
    /\ [][~putObject.pending /\ putObject'.pending
            => callerPc = "idle" /\ ~forkModeEnabled /\ nCalls' = nCalls + 1]_vars
    /\ [][putObject.pending /\ putObject' # putObject
            => putObject' \in { NoPut, [putObject EXCEPT !.signalVal = TRUE] }]_vars
    /\ [][callerPc = "uploading" /\ callerPc' # callerPc
            => putObject.signalVal /\ callerPc' = "idle" /\ uploadResult' = "s3BackupPath"]_vars
    /\ [][uploadVars' # uploadVars
            => m_metricsBackup' = m_metricsBackup /\ bufferVars' = bufferVars]_vars

\* an upload of a non-empty log failed, and UploadBackup has returned the path
C18_Witness ==
    /\ callerPc = "idle"
    /\ uploadResult = "s3BackupPath"
    /\ ~s3Object.stored
    /\ m_metricsBackup # << >>

\* the manager's hold on the pool was released by InitiateShutdown
ShutdownInitiated == manager.m_releaseInvoked

\* the future InitiateShutdown returned is ready
SignalReady == manager.m_shutdownPromise

NoLeaseNoConnection ==
    /\ pool.leasedCount = 0
    /\ pool.freeConnections = 0

C20_NoAcquisitionAfterShutdown ==
    [][ShutdownInitiated
         => /\ Len(pool'.pendingAcquireQueue) <= Len(pool.pendingAcquireQueue)
            /\ \A i \in DOMAIN acquires' \ DOMAIN acquires :
                  acquires'[i].stage = "refused"]_vars

StageOf(i) == acquires[i].stage

\* the acquisitions that hold a leased connection
Leased == { i \in DOMAIN acquires : StageOf(i) = "leased" }

\* C21 as claimed: an acquisition whose callback arguments could not be
\* allocated has had its callback invoked with AWS_ERROR_OOM.
C21_AllocationFailureReachesCallback ==
    \A i \in DOMAIN acquires :
        StageOf(i) = "refused"
            => acquires[i].callbacks = 1 /\ acquires[i].errorCode = AWS_ERROR_OOM

\* C22: the callback of an acquisition is invoked at most once, and exactly
\* once when the pool has answered it: with a connection and AWS_OP_SUCCESS
\* or with no connection and a non-zero code.  The connections the pool counts
\* as leased are exactly those held by live handles, so a failed acquisition
\* leaves none behind.
C22_CallbackOnceNoLeak ==
    /\ \A i \in DOMAIN acquires :
          /\ acquires[i].callbacks = IF StageOf(i) \in { "refused", "pending" } THEN 0 ELSE 1
          /\ StageOf(i) \in { "leased", "released" } => acquires[i].errorCode = AWS_OP_SUCCESS
          /\ StageOf(i) = "failed" => acquires[i].errorCode # AWS_OP_SUCCESS
    /\ pool.leasedCount = Cardinality(Leased)

\* one acquisition failed to connect while another holds the only connection
C22_Witness ==
    /\ \E i \in DOMAIN acquires :
          /\ StageOf(i) = "failed"
          /\ acquires[i].errorCode = ConnectError
          /\ acquires[i].callbacks = 1
    /\ Leased # {}

IsPending(i) == StageOf(i) = "pending"

C24_HoldReleasedOnce ==
    /\ pool.holdReleases <= 1
    /\ manager.state \in { "waiting", "destroyed" } => pool.holdReleases = 1

\* seq with the elements at positions i and j exchanged
Swapped(seq, i, j) == [seq EXCEPT ![i] = seq[j], ![j] = seq[i]]

\* C25: the live buffer, as a set of buckets (name, unit, timestamp, value), is
\* what any other arrival order of the points added since the last drain would
\* have given.  Exchanges of two points generate every permutation.
C25_AggregateIndependentOfOrder ==
    \A i, j \in DOMAIN liveAdds :
        Range(AddEach([data |-> << >>, lu |-> << >>], Swapped(liveAdds, i, j)).data)
            = Range(m_publishData)

\* C26: the live buffer shrinks only in a tick that drains it, and that tick
\* empties buffer and index in the same step and carries the whole prior
\* buffer into the snapshot (what it does not pop at once stays in it); a step
\* that adds points puts the whole batch into the live buffer and leaves the
\* snapshot alone.
C26_DrainAtomicOnlyShrink ==
    /\ [][Len(m_publishData') < Len(m_publishData) => DrainTick]_vars
    /\ [][DrainTick
            => LET n == Len(metricsSlice') IN
               /\ m_publishData' = << >>
               /\ m_publishDataLU' = << >>
               /\ m_publishDataTaskCopy' = SubSeq(m_publishData, 1, Len(m_publishData) - n)
               /\ metricsSlice' = PoppedFrom(m_publishData, n)]_vars
    /\ [][liveAdds' # liveAdds /\ liveAdds' # << >>
            => LET batch == SubSeq(liveAdds', Len(liveAdds) + 1, Len(liveAdds')) IN
               /\ Len(liveAdds') > Len(liveAdds)
               /\ m_publishData' = AddEach(LiveBuffer, batch).data
               /\ m_publishDataLU' = AddEach(LiveBuffer, batch).lu
               /\ UNCHANGED taskVars]_vars

\* a point was added while a drained snapshot is still being consumed: it is
\* in the new live buffer, the snapshot holds what the drain took
C26_Witness ==
    /\ m_publishDataTaskCopy # << >>
    /\ m_publishData # << >>
    /\ Len(drained) = BulkLen
    /\ Len(liveAdds) = 1

\* the document whose replay has reached the publisher: what GetObject returned
Replayed == rehydrate.active /\ rehydrate.signalVal

\* C27: when the document replayed holds the strings the tables give for a
\* transfer type t, a name e and a unit u, the override and the replayed point
\* hold t, e and u again; a string that is in no table is read as the
\* enumerator whose string is "None" (transfer type, unit) or "Invalid" (name).
C27_EnumRoundTrip ==
    Replayed =>
        LET doc == rehydrate.contents
            metricJson == doc.Metrics[1]
        IN /\ \A t \in TransferTypes :
                doc.TransferType = MetricTransferTypeToString(t)
                    => ParsedOverride("TransferType", doc) = t
                       /\ (overrides.TransferType.has_value
                              => overrides.TransferType.value = t)
           /\ doc.TransferType \notin Range(TransferTypeStr)
                => MetricTransferTypeToString(ParsedOverride("TransferType", doc)) = "None"
           /\ doc.Metrics # << >> =>
                /\ \A e \in MetricNames, u \in MetricUnits :
                      metricJson.Name = MetricNameToStr(e) /\ metricJson.Unit = UnitToStr(u)
                          => /\ ParseMetric(metricJson).Name = e
                             /\ ParseMetric(metricJson).Unit = u
                             /\ \A i \in DOMAIN liveAdds :
                                   liveAdds[i].Name = e /\ liveAdds[i].Unit = u
                /\ metricJson.Name \notin Range(MetricNameStr)
                      => MetricNameToStr(ParseMetric(metricJson).Name) = "Invalid"
                /\ metricJson.Unit \notin Range(MetricUnitStr)
                      => UnitToStr(ParseMetric(metricJson).Unit) = "None"

\* a point written as NumIOSubs has been replayed into the live buffer
C27_Witness ==
    /\ Replayed
    /\ rehydrate.contents.Metrics # << >>
    /\ rehydrate.contents.Metrics[1].Name = "NumIOSubs"
    /\ liveAdds # << >>
    /\ liveAdds[1].Name = NumValidNames - 1

\* a stream is created and activated for a request that is signed and has
\* been waiting for its connection: the POST goes out
PostIssued ==
    \E i \in DOMAIN requests :
        /\ requests[i].stage = "acquiring"
        /\ requests' = [requests EXCEPT ![i].stage = "streaming"]

\* C28: a request is made only by a tick that pops a batch, one per tick, and
\* starts unsigned; the only other changes to the requests are that one is
\* dropped, that an unsigned one becomes signed and waits for a connection, or
\* that the POST of one that waits for its connection is issued; a signing
\* callback issues no POST, and a signing or connection callback that is given
\* an error does nothing but drop a request.
C28_OnePostPerTickAfterSignAndAcquire ==
    [][requests' # requests
         => /\ Len(requests') > Len(requests)
                  => PopTick /\ requests' = Append(requests, NewRequest(metricsSlice'))
            /\ Len(requests') < Len(requests)
                  => \E i \in DOMAIN requests : requests' = RemoveAt(requests, i)
            /\ Len(requests') = Len(requests)
                  => \/ PostIssued
                     \/ \E i \in DOMAIN requests :
                           /\ requests[i].stage = "signing"
                           /\ requests' = [requests EXCEPT ![i].stage = "acquiring"]
            /\ PostIssued
                  => \A i \in DOMAIN requests, e \in ErrorCodes, ok \in BOOLEAN :
                        ~OnSigningComplete(i, e, ok)
            /\ Len(requests') >= Len(requests)
                  => \A i \in DOMAIN requests, ok \in BOOLEAN,
                        e \in ErrorCodes \ { AWS_OP_SUCCESS } :
                        /\ ~OnSigningComplete(i, e, ok)
                        /\ ~OnConnectionAvailable(i, e, ok)]_vars

\* the first tick's POST is out while the second tick's request awaits its
\* signature
C28_Witness ==
    /\ Len(requests) = 2
    /\ requests[1].stage = "streaming"
    /\ requests[2].stage = "signing"

\* a step that executes SchedulePublish: FlushMetrics, RehydrateBackup after
\* its loop, or the connection callback of a tick
SchedulePublishStep ==
    \/ callerPc = "idle" /\ callerPc' = "flush"
    \/ callerPc = "adding" /\ callerPc' # "adding"
    \/ \E i \in DOMAIN requests :
          /\ requests[i].stage = "acquiring"
          /\ \/ requests' = RemoveAt(requests, i)
             \/ requests' = [requests EXCEPT ![i].stage = "streaming"]

\* C29: the publish task is never queued more than once, and SchedulePublish
\* is executed only when the task is not queued.
C29_AtMostOnePublishTaskPending ==
    /\ [](publishTaskPending <= 1)
    /\ [][SchedulePublishStep => publishTaskPending = 0]_vars

\* C30: when WaitForLastPublish returns, the live buffer and the drained
\* snapshot are both empty.
C30_NothingLeftWhenWaitReturns ==
    [][(callerPc \in { "flush", "waiting" }) /\ callerPc' \notin { "flush", "waiting" }
         => Len(m_publishData) = 0 /\ Len(m_publishDataTaskCopy) = 0]_vars

\* the destructor of the manager has been entered
DestructorEntered == manager.state \in { "waiting", "destroyed" }

\* the acquisitions whose callback is still to come or whose handle is alive
Outstanding == { i \in DOMAIN acquires : StageOf(i) \in { "pending", "leased" } }

\* C34: the destructor of the manager is entered only when the owner has let
\* go, no acquisition is pending and no handle is alive, and from then on none
\* is; it is the destructor's step that releases the hold on the pool unless
\* InitiateShutdown did.
C34_DestroyedOnlyWhenUnreferenced ==
    /\ [](DestructorEntered => Outstanding = {} /\ ~manager.owner)
    /\ [][~DestructorEntered /\ DestructorEntered'
            => /\ \A i \in DOMAIN acquires' :
                     acquires'[i].stage \in { "refused", "released", "failed" }
               /\ \A i \in DOMAIN acquires :
                     acquires'[i].callbacks = IF StageOf(i) = "refused" THEN 0 ELSE 1
               /\ pool'.holdReleases
                     = pool.holdReleases + IF manager.m_releaseInvoked THEN 0 ELSE 1]_vars

\* the owner let go while a handle was alive; the manager was destroyed when
\* that handle went away, and its destructor released the hold
C34_Witness ==
    /\ manager.state = "destroyed"
    /\ ~manager.m_releaseInvoked
    /\ pool.holdReleases = 1
    /\ \E i \in DOMAIN acquires : StageOf(i) = "released"

\* C31: when the producers have added their last point, a thread that has
\* entered FlushMetrics and executed its SchedulePublish, the task it scheduled
\* being still to run, eventually is back in the application: its
\* WaitForLastPublish returns.
C31_FlushMetricsReturns ==
    (callerPc = "flush" /\ nAdds = MaxAdds /\ publishTaskPending > 0)
        ~> (callerPc = "idle")

\* the sum of the values of the points that have the key: the points are
\* counted as a bag that holds each of them as often as its value says
ValueFor(key, points) ==
    LET with == { i \in DOMAIN points :
                    /\ points[i].Name = key.Name
                    /\ points[i].Timestamp \div MillisPerSecond = key.TimestampSeconds }
    IN
    IF with = {} THEN 0 ELSE BagCardinality([i \in with |-> points[i].Value])

\* for every key, the values added in the current interval and the values of
\* the buckets drained so far add up to what the live buffer, the snapshot and
\* the backup log hold for it
Conserved(adds, taken, data, taskCopy, backup) ==
    LET added == adds \o taken
        held == data \o taskCopy \o backup
    IN  \A key \in KeysOf(added) \cup KeysOf(held) :
            ValueFor(key, added) = ValueFor(key, held)

\* C32: values are conserved.  The sums are equal at the start, and every step
\* that changes the live buffer, the snapshot or the log (a completed
\* AddDataPoint, AddDataPoints or tick) leaves them equal; a bucket counts as
\* added with the value it has when the tick drains it.
C32_ValuesConserved ==
    /\ Conserved(liveAdds, drained, m_publishData, m_publishDataTaskCopy, m_metricsBackup)
    /\ [][m_publishData' # m_publishData \/ m_publishDataTaskCopy' # m_publishDataTaskCopy
              \/ m_metricsBackup' # m_metricsBackup
            => /\ Conserved(liveAdds', drained', m_publishData', m_publishDataTaskCopy',
                            m_metricsBackup')
               /\ IF Len(liveAdds') < Len(liveAdds)
                  THEN Len(liveAdds') = 0 /\ drained' = drained \o m_publishData
                  ELSE drained' = drained]_vars

\* one key has a value in the snapshot, drained from an earlier interval, and
\* a value in the live buffer, added since, while the log holds a batch
C32_Witness ==
    /\ KeysOf(m_publishDataTaskCopy) \cap KeysOf(m_publishData) # {}
    /\ m_metricsBackup # << >>

\* C33: the run of the cancelled task takes the task off the queue and changes
\* nothing else: live buffer, index, snapshot, slice, log and requests stay as
\* they are, no waiter is notified and the task is not queued again.
C33_CancelledTaskChangesNothing ==
    [][callerPc = "destroyed"
         => /\ publishTaskPending' = publishTaskPending - 1
            /\ UNCHANGED << bufferVars, taskVars, requests, notified, callerPc,
                            liveAdds, uploadVars >>]_vars

\* the publisher was destroyed with points in its live buffer after a
\* FlushMetrics had scheduled the task, and the task is off the queue
C33_Witness ==
    /\ callerPc = "destroyed"
    /\ publishTaskPending = 0
    /\ nCalls >= 1
    /\ m_publishData # << >>
    /\ Len(m_publishDataTaskCopy) = 0

=============================================================================
